---------------------------- MODULE Spec2Model ----------------------------
(***************************************************************************)
(* A model of the three data structures of src/data_structures: the BSP    *)
(* tree (bsptree.rs), the gap buffer (gap_buffer.rs) and the linked list   *)
(* (linked_list.rs).  Each has its own variables and specifications; a     *)
(* specification of one structure leaves the others unbuilt.               *)
(*                                                                         *)
(* The BSP tree.                                                           *)
(*                                                                         *)
(*                                                                         *)
(* The Rust nodes are Rc<RefCell<Node>> cells.  They are modelled as a     *)
(* heap: a function from cell identities to Node records whose left,       *)
(* right and parent fields hold cell identities (Nil for None).  Cloning   *)
(* an Rc copies the identity, cloning a Node copies the record (and so     *)
(* the identities it holds), RefCell::replace overwrites the record of a   *)
(* cell.  A cell that no chain of references from the tree's root or       *)
(* focused field reaches is dropped from the heap.  The identity of a cell *)
(* is an address the program never inspects, so after every call the live  *)
(* cells are renumbered 1..n in the order the references reach them.       *)
(*                                                                         *)
(* A failed Option::unwrap and a RefCell borrow conflict panic; the model  *)
(* records that in the variable aborted, after which nothing runs.         *)
(*                                                                         *)
(* The variables last and hist record the caller's calls; they are written *)
(* only when traced is TRUE.  Spec is the tree alone, SpecTraced the tree  *)
(* with the record of the calls.                                           *)
(***************************************************************************)
EXTENDS Integers, Sequences, FiniteSets

VARIABLES heap, root, focused, size, aborted, traced, last, hist,
          gap_buffer, gb_panicked, overflow_checks,
          linked_list, ll_panicked

\* the variables of the gap buffer
gbvars == <<gap_buffer, gb_panicked, overflow_checks>>

\* the variables of the linked list
llvars == <<linked_list, ll_panicked>>

vars == <<heap, root, focused, size, aborted, traced, last, hist, gbvars,
          llvars>>

---------------------------------------------------------------------------
(* Bounds of the model. *)

\* the number of Rc cells alive at the same time
MaxCells == 5
\* the bounding rectangle handed to BSPTree::new is (0, 0, SizeW, SizeH)
SizeW == 3
SizeH == 2
\* pub const GROW_BY: usize = 32, scaled down: the bytes a gap buffer starts
\* with and grows by
GROW_BY == 2
\* the number of times a gap buffer grows
MaxGrows == 1
\* the number of nodes of a linked list
MaxLen == 4

Cells == 1..MaxCells
\* The payloads handed to insert.  The program never inspects a payload, it
\* only moves it; two values tell a displaced payload from a new one.
Data == {1, 2}
\* the coordinates of a click on the canvas, handed to focus_coords
ClickX == 0..SizeW
ClickY == 0..SizeH
\* coordinates handed to get_node, inside the bounding rectangle and outside
CoordX == (0 - 1)..(SizeW + 1)
CoordY == (0 - 1)..(SizeH + 1)

---------------------------------------------------------------------------
(* Option<BSPTreeNode>::None; cell identities start at 1. *)
Nil == 0

(* The value of the variables of a structure that has not been built. *)
Unbuilt == << >>

(* Option<NodeData>: None is the empty sequence, Some(d) is <<d>>. *)
None == << >>
Some(d) == <<d>>

MoveDirection == {"Left", "Right", "Up", "Down"}
SplitDirection == {"Horizontal", "Vertical"}

Rectangle(x, y, w, h) == [x |-> x, y |-> y, w |-> w, h |-> h]

(* An `as u32` cast of an i32.  The u32 value is hi * 2^31 + lo: a         *)
(* negative i32 v becomes v + 2^32, that is hi = 1 and lo = v + 2^31.      *)
AsU32(v) ==
    IF v >= 0 THEN [hi |-> 0, lo |-> v]
              ELSE [hi |-> 1, lo |-> (v + 2147483647) + 1]

(* A u32 field of a Rectangle of the model (always below 2^31). *)
U32(n) == [hi |-> 0, lo |-> n]

U32Le(a, b) == a.hi < b.hi \/ (a.hi = b.hi /\ a.lo <= b.lo)

(* apply_move with the probe of Left computed as the probe of Right. *)
apply_move_left_as_right(dir, rect) ==
    CASE dir = "Left"  -> <<rect.x + rect.w + 1, rect.y>>
      [] dir = "Right" -> <<rect.x + rect.w + 1, rect.y>>
      [] dir = "Up"    -> <<rect.x, rect.y - 1>>
      [] dir = "Down"  -> <<rect.x, rect.y + rect.h + 1>>

(* apply_move with the probes of Left and Up on the rectangle's own corner. *)
apply_move_without_step(dir, rect) ==
    CASE dir = "Left"  -> <<rect.x, rect.y>>
      [] dir = "Right" -> <<rect.x + rect.w + 1, rect.y>>
      [] dir = "Up"    -> <<rect.x, rect.y>>
      [] dir = "Down"  -> <<rect.x, rect.y + rect.h + 1>>

(* MoveDirection::apply_move *)
apply_move(dir, rect) ==
    CASE dir = "Left"  -> <<rect.x - 1, rect.y>>
      [] dir = "Right" -> <<rect.x + rect.w + 1, rect.y>>
      [] dir = "Up"    -> <<rect.x, rect.y - 1>>
      [] dir = "Down"  -> <<rect.x, rect.y + rect.h + 1>>

(* split with the second half taking what the first half leaves. *)
split_second_takes_rest(dir, rect) ==
    IF dir = "Horizontal"
    THEN << Rectangle(rect.x, rect.y, rect.w, rect.h \div 2),
            Rectangle(rect.x, rect.y + rect.h \div 2, rect.w,
                      rect.h - rect.h \div 2) >>
    ELSE << Rectangle(rect.x, rect.y, rect.w \div 2, rect.h),
            Rectangle(rect.x + rect.w \div 2, rect.y,
                      rect.w - rect.w \div 2, rect.h) >>

(* SplitDirection::split: the pair of halves, by truncating division. *)
split(dir, rect) ==
    IF dir = "Horizontal"
    THEN << Rectangle(rect.x, rect.y, rect.w, rect.h \div 2),
            Rectangle(rect.x, rect.y + rect.h \div 2, rect.w, rect.h \div 2) >>
    ELSE << Rectangle(rect.x, rect.y, rect.w \div 2, rect.h),
            Rectangle(rect.x + rect.w \div 2, rect.y, rect.w \div 2, rect.h) >>

(* Rectangle::is_inside *)
is_inside(rect, x_, y_) ==
    /\ U32Le(U32(rect.x), AsU32(x_))
    /\ U32Le(AsU32(x_), U32(rect.x + rect.w))
    /\ U32Le(U32(rect.y), AsU32(y_))
    /\ U32Le(AsU32(y_), U32(rect.y + rect.h))

(* Node::new *)
Node_new(rect, dir, data) ==
    [ rect |-> rect, left |-> Nil, right |-> Nil, parent |-> Nil,
      split |-> dir, leaf |-> TRUE, data |-> Some(data),
      focused |-> FALSE, right_child |-> FALSE ]

---------------------------------------------------------------------------
(* The tree as a value: the heap, the root and focused fields of BSPTree,  *)
(* and ok, which is FALSE once a call has panicked.                        *)
Tree(h, r, f, ok) == [heap |-> h, root |-> r, focused |-> f, ok |-> ok]

Panic(t) == [t EXCEPT !.ok = FALSE]

(* Rc::new: the identity of a fresh cell. *)
Alloc(h) ==
    LET free == 1..(Cardinality(DOMAIN h) + 1) \ DOMAIN h
    IN  CHOOSE c \in free : \A d \in free : c <= d

(* The heap h with cell c holding record n. *)
Store(h, c, n) == [d \in DOMAIN h \cup {c} |-> IF d = c THEN n ELSE h[d]]

(* The cells a cell's record refers to, in the order of its fields. *)
Refs(h, c) == <<h[c].left, h[c].right, h[c].parent>>

Range(s) == {s[i] : i \in 1..Len(s)}

(* The references of the cells of order, in the order of the cells and of  *)
(* their fields.                                                           *)
RECURSIVE AllRefs(_, _, _)
AllRefs(h, order, i) ==
    IF i > Len(order) THEN << >>
    ELSE Refs(h, order[i]) \o AllRefs(h, order, i + 1)

(* The live cells in the order the references reach them from the cells of *)
(* order: the first reference, by cell and field, to a cell not yet there  *)
(* adds that cell.                                                         *)
RECURSIVE ReachFrom(_, _)
ReachFrom(h, order) ==
    LET refs == AllRefs(h, order, 1)
        known == Range(order) \cup {Nil}
        new == {k \in 1..Len(refs) : refs[k] \notin known}
    IN  IF new = {} THEN order
        ELSE LET k == CHOOSE j \in new : \A m \in new : j <= m
             IN  ReachFrom(h, Append(order, refs[k]))

(* The cells the tree's root and focused fields keep alive. *)
Live(t) ==
    LET fromRoot == IF t.root = Nil THEN << >>
                    ELSE ReachFrom(t.heap, <<t.root>>)
    IN  IF t.focused = Nil \/ t.focused \in Range(fromRoot) THEN fromRoot
        ELSE ReachFrom(t.heap, Append(fromRoot, t.focused))

(* Rc drop: only the cells of Live(t) stay, and cell Live(t)[i] becomes    *)
(* cell i.                                                                 *)
Collect(t) ==
    LET order == Live(t)
        name(c) == IF c = Nil THEN Nil
                   ELSE CHOOSE i \in 1..Len(order) : order[i] = c
        move(n) == [n EXCEPT !.left = name(n.left),
                             !.right = name(n.right),
                             !.parent = name(n.parent)]
    IN  [t EXCEPT !.heap = [i \in 1..Len(order) |-> move(t.heap[order[i]])],
                  !.root = name(t.root),
                  !.focused = name(t.focused)]

---------------------------------------------------------------------------
(* Node::walk with the right subtree visited before the left one. *)
RECURSIVE Node_walk_right_first(_, _, _)
Node_walk_right_first(h, n, fuel) ==
    IF fuel = 0 THEN << >>
    ELSE LET l == h[n].left
             r == h[n].right
         IN  (IF r # Nil THEN <<r>> \o Node_walk_right_first(h, r, fuel - 1)
                         ELSE << >>)
             \o (IF l # Nil THEN <<l>> \o Node_walk_right_first(h, l, fuel - 1)
                             ELSE << >>)

(* Node::walk: the cells below cell n, left subtree before right subtree.  *)
(* fuel bounds the recursion depth (a tree of the model is never deeper    *)
(* than MaxCells).                                                         *)
RECURSIVE Node_walk(_, _, _)
Node_walk(h, n, fuel) ==
    IF fuel = 0 THEN << >>
    ELSE LET l == h[n].left
             r == h[n].right
         IN  (IF l # Nil THEN <<l>> \o Node_walk(h, l, fuel - 1) ELSE << >>)
             \o (IF r # Nil THEN <<r>> \o Node_walk(h, r, fuel - 1) ELSE << >>)

(* BSPTree::walk: the root, then Node::walk of the root. *)
walk(t) ==
    IF t.root = Nil THEN << >>
    ELSE <<t.root>> \o Node_walk(t.heap, t.root, MaxCells)

(* The loop of BSPTree::get_node: from cell n go to the child whose        *)
(* rectangle holds the point, the right child when both do, and stop where *)
(* neither does.  A descent longer than fuel steps never ends: Hang.       *)
Hang == 0 - 1

(* The loop of get_node with the children tested right before left, so     *)
(* that the left child is taken when both rectangles hold the point.       *)
RECURSIVE Descend_left_last(_, _, _, _, _)
Descend_left_last(h, n, x, y, fuel) ==
    LET l == h[n].left
        r == h[n].right
        viaRight == IF r # Nil /\ is_inside(h[r].rect, x, y) THEN r ELSE Nil
        new_node == IF l # Nil /\ is_inside(h[l].rect, x, y) THEN l ELSE viaRight
    IN  IF new_node = Nil THEN n
        ELSE IF fuel = 0 THEN Hang
        ELSE Descend_left_last(h, new_node, x, y, fuel - 1)

RECURSIVE Descend(_, _, _, _, _)
Descend(h, n, x, y, fuel) ==
    LET l == h[n].left
        r == h[n].right
        viaLeft == IF l # Nil /\ is_inside(h[l].rect, x, y) THEN l ELSE Nil
        new_node == IF r # Nil /\ is_inside(h[r].rect, x, y) THEN r ELSE viaLeft
    IN  IF new_node = Nil THEN n
        ELSE IF fuel = 0 THEN Hang
        ELSE Descend(h, new_node, x, y, fuel - 1)

(* BSPTree::get_node *)
get_node(t, x, y) ==
    IF t.root = Nil THEN Nil
    ELSE LET node == Descend(t.heap, t.root, x, y, MaxCells)
         IN  IF node = Hang THEN Hang
             ELSE IF ~t.heap[node].leaf THEN Nil
             ELSE node

(* focus_coords that clears the flag of the focused cell before it looks   *)
(* for the node.                                                           *)
focus_coords_clears_first(t, x, y) ==
    LET node == get_node(t, x, y)
        h0 == IF t.focused = Nil THEN t.heap
              ELSE [t.heap EXCEPT ![t.focused].focused = FALSE]
    IN  IF node = Nil THEN [t EXCEPT !.heap = h0]
        ELSE IF node = Hang \/ t.focused = Nil THEN Panic(t)
        ELSE Tree([h0 EXCEPT ![node].focused = TRUE], t.root, node, TRUE)

(* focus_coords without clearing the flag of the cell that had the focus. *)
focus_coords_keeps_flag(t, x, y) ==
    LET node == get_node(t, x, y)
    IN  IF node = Nil THEN t
        ELSE IF node = Hang \/ t.focused = Nil THEN Panic(t)
        ELSE Tree([t.heap EXCEPT ![node].focused = TRUE], t.root, node, TRUE)

(* focus_coords that moves the flags but not the tree's focused reference. *)
focus_coords_keeps_reference(t, x, y) ==
    LET node == get_node(t, x, y)
    IN  IF node = Nil THEN t
        ELSE IF node = Hang \/ t.focused = Nil THEN Panic(t)
        ELSE LET h1 == [t.heap EXCEPT ![t.focused].focused = FALSE]
                 h2 == [h1 EXCEPT ![node].focused = TRUE]
             IN  Tree(h2, t.root, t.focused, TRUE)

(* BSPTree::focus_coords *)
focus_coords(t, x, y) ==
    LET node == get_node(t, x, y)
    IN  IF node = Nil THEN t
        ELSE IF node = Hang \/ t.focused = Nil THEN Panic(t)
        ELSE LET h1 == [t.heap EXCEPT ![t.focused].focused = FALSE]
                 h2 == [h1 EXCEPT ![node].focused = TRUE]
             IN  Tree(h2, t.root, node, TRUE)

(* BSPTree::move_focus *)
move_focus(t, direction) ==
    IF t.root = Nil THEN t
    ELSE IF t.focused = Nil THEN Panic(t)
    ELSE LET p == apply_move(direction, t.heap[t.focused].rect)
         IN  focus_coords(t, p[1], p[2])

(* BSPTree::set_split *)
set_split(t, dir) ==
    IF t.focused = Nil THEN t
    ELSE [t EXCEPT !.heap[t.focused].split = dir]

(* toggle_split that maps both policies to Horizontal. *)
toggle_split_sets_horizontal(t) ==
    IF t.focused = Nil THEN t
    ELSE [t EXCEPT !.heap[t.focused].split = "Horizontal"]

(* BSPTree::toggle_split *)
toggle_split(t) ==
    IF t.focused = Nil THEN t
    ELSE LET dir == t.heap[t.focused].split
         IN  [t EXCEPT !.heap[t.focused].split =
                 IF dir = "Vertical" THEN "Horizontal" ELSE "Vertical"]

(* BSPTree::insert, the first insertion: the root is a focused leaf that   *)
(* spans size.                                                             *)
insert_root(t, sz, data) ==
    LET node == Alloc(t.heap)
        n == [Node_new(sz, "Vertical", data) EXCEPT !.focused = TRUE]
    IN  Tree(Store(t.heap, node, n), node, node, TRUE)

(* insert_split with one field of the result changed: the payloads of the *)
(* two children swapped; the payload left in the split cell; the leaf flag *)
(* left set on the split cell.                                             *)
insert_split_swapped(t, data) ==
    IF t.focused = Nil THEN Panic(t)
    ELSE IF t.heap[t.focused].data = None THEN Panic(t)
    ELSE LET f == t.focused
             old == t.heap[f]
             halves == split(old.split, old.rect)
             lc == Alloc(t.heap)
             h1 == Store(t.heap, lc,
                     [Node_new(halves[1], old.split, data)
                        EXCEPT !.parent = f])
             rc == Alloc(h1)
             h2 == Store(h1, rc,
                     [Node_new(halves[2], old.split, old.data[1])
                        EXCEPT !.parent = f, !.focused = TRUE,
                               !.right_child = TRUE])
             h3 == [h2 EXCEPT ![f] = [old EXCEPT !.leaf = FALSE,
                                                 !.focused = FALSE,
                                                 !.data = None,
                                                 !.left = lc,
                                                 !.right = rc]]
         IN  Tree(h3, t.root, rc, TRUE)

insert_split_keeps_data(t, data) ==
    IF t.focused = Nil THEN Panic(t)
    ELSE IF t.heap[t.focused].data = None THEN Panic(t)
    ELSE LET f == t.focused
             old == t.heap[f]
             halves == split(old.split, old.rect)
             lc == Alloc(t.heap)
             h1 == Store(t.heap, lc,
                     [Node_new(halves[1], old.split, old.data[1])
                        EXCEPT !.parent = f])
             rc == Alloc(h1)
             h2 == Store(h1, rc,
                     [Node_new(halves[2], old.split, data)
                        EXCEPT !.parent = f, !.focused = TRUE,
                               !.right_child = TRUE])
             h3 == [h2 EXCEPT ![f] = [old EXCEPT !.leaf = FALSE,
                                                 !.focused = FALSE,
                                                 !.left = lc,
                                                 !.right = rc]]
         IN  Tree(h3, t.root, rc, TRUE)

insert_split_keeps_leaf(t, data) ==
    IF t.focused = Nil THEN Panic(t)
    ELSE IF t.heap[t.focused].data = None THEN Panic(t)
    ELSE LET f == t.focused
             old == t.heap[f]
             halves == split(old.split, old.rect)
             lc == Alloc(t.heap)
             h1 == Store(t.heap, lc,
                     [Node_new(halves[1], old.split, old.data[1])
                        EXCEPT !.parent = f])
             rc == Alloc(h1)
             h2 == Store(h1, rc,
                     [Node_new(halves[2], old.split, data)
                        EXCEPT !.parent = f, !.focused = TRUE,
                               !.right_child = TRUE])
             h3 == [h2 EXCEPT ![f] = [old EXCEPT !.focused = FALSE,
                                                 !.data = None,
                                                 !.left = lc,
                                                 !.right = rc]]
         IN  Tree(h3, t.root, rc, TRUE)

(* BSPTree::insert on a tree with a root: the focused cell loses leaf,     *)
(* focus and payload and gets two fresh children.                          *)
insert_split(t, data) ==
    IF t.focused = Nil THEN Panic(t)
    ELSE IF t.heap[t.focused].data = None THEN Panic(t)
    ELSE LET f == t.focused
             old == t.heap[f]
             halves == split(old.split, old.rect)
             prev_data == old.data[1]
             lc == Alloc(t.heap)
             h1 == Store(t.heap, lc,
                     [Node_new(halves[1], old.split, prev_data)
                        EXCEPT !.parent = f])
             rc == Alloc(h1)
             h2 == Store(h1, rc,
                     [Node_new(halves[2], old.split, data)
                        EXCEPT !.parent = f, !.focused = TRUE,
                               !.right_child = TRUE])
             h3 == [h2 EXCEPT ![f] = [old EXCEPT !.leaf = FALSE,
                                                 !.focused = FALSE,
                                                 !.data = None,
                                                 !.left = lc,
                                                 !.right = rc]]
         IN  Tree(h3, t.root, rc, TRUE)

(* BSPTree::insert *)
insert(t, sz, data) ==
    IF t.root = Nil THEN insert_root(t, sz, data) ELSE insert_split(t, data)

---------------------------------------------------------------------------
(* The result of a step of Node::update: a heap, and whether no borrow     *)
(* conflict was met.                                                       *)
Upd(h, ok) == [heap |-> h, ok |-> ok]

(* Node::update, called as c.borrow_mut().update(rect) while the cells of  *)
(* borrowed are borrowed: borrow_mut of one of those panics.  The cell     *)
(* stays mutably borrowed while its children are updated.                  *)
RECURSIVE update(_, _, _, _)
update(h, c, rect, borrowed) ==
    IF c \in borrowed THEN Upd(h, FALSE)
    ELSE LET h1 == [h EXCEPT ![c].rect = rect]
             halves == split(h1[c].split, rect)
             l == h1[c].left
             r == h1[c].right
             held == borrowed \cup {c}
             afterLeft == IF l # Nil THEN update(h1, l, halves[1], held)
                                     ELSE Upd(h1, TRUE)
         IN  IF ~afterLeft.ok THEN afterLeft
             ELSE IF r # Nil THEN update(afterLeft.heap, r, halves[2], held)
             ELSE afterLeft

(* delete_focused, the choice of the sibling: the other child of the       *)
(* focused cell's parent, by the focused cell's right_child flag.          *)
sibling_of(h, f) ==
    IF h[f].right_child THEN h[h[f].parent].left ELSE h[h[f].parent].right

(* promote without the copy of the parent's rectangle. *)
promote_keeps_rect(h, s, p) ==
    [h EXCEPT ![s].parent = h[p].parent,
              ![s].right_child = h[p].right_child]

(* delete_focused, "set the correct parameters on the sibling": the        *)
(* sibling takes the parent's parent, rectangle and right_child flag.      *)
promote(h, s, p) ==
    [h EXCEPT ![s].parent = h[p].parent,
              ![s].rect = h[p].rect,
              ![s].right_child = h[p].right_child]

(* delete_focused, "set the correct child of the parent of the parent":    *)
(* the slot of the sibling's new parent, if any, now holds the sibling.    *)
reattach(h, s) ==
    LET par == h[s].parent
    IN  IF par = Nil THEN h
        ELSE IF h[s].right_child THEN [h EXCEPT ![par].right = s]
        ELSE [h EXCEPT ![par].left = s]

(* delete_focused, "make the sibling the new parent": RefCell::replace of  *)
(* the parent's record by a clone of the sibling's record.                 *)
replace(h, p, s) == [h EXCEPT ![p] = h[s]]

(* delete_focused, "update the size of the subtrees" of the parent cell p, *)
(* which is mutably borrowed, like the cells of borrowed.                  *)
resize(h, p, borrowed) ==
    LET halves == split(h[p].split, h[p].rect)
        l == h[p].left
        r == h[p].right
        held == borrowed \cup {p}
        afterLeft == IF l # Nil THEN update(h, l, halves[1], held)
                                ELSE Upd(h, TRUE)
    IN  IF ~afterLeft.ok THEN afterLeft
        ELSE IF r # Nil THEN update(afterLeft.heap, r, halves[2], held)
        ELSE afterLeft

(* BSPTree::delete_focused when the focused cell has a parent.  The        *)
(* focused cell is borrowed for the whole block, the sibling is mutably    *)
(* borrowed while it is promoted and reattached, and is borrowed while     *)
(* the parent's record is replaced.                                        *)
splice(t) ==
    LET h == t.heap
        f == t.focused
        rect == h[f].rect
        parent == h[f].parent
        sibling == sibling_of(h, f)
    IN  IF sibling = Nil THEN Panic(t)
        ELSE IF sibling = f \/ sibling = parent THEN Panic(t)
        ELSE LET h1 == promote(h, sibling, parent)
                 par == h1[sibling].parent
             IN  IF par # Nil /\ (par = f \/ par = sibling) THEN Panic(t)
                 ELSE IF parent = f THEN Panic(t)
                 ELSE LET h2 == replace(reattach(h1, sibling), parent, sibling)
                          res == resize(h2, parent, {f})
                      IN  IF ~res.ok THEN Panic(t)
                          ELSE focus_coords(Tree(res.heap, t.root, f, TRUE),
                                            rect.x, rect.y)

(* BSPTree::delete_focused *)
delete_focused(t) ==
    IF t.focused = Nil THEN t
    ELSE IF t.heap[t.focused].parent = Nil THEN Tree(t.heap, Nil, Nil, TRUE)
    ELSE splice(t)

---------------------------------------------------------------------------
(* Counts over the tree as walk() returns it. *)
Leaves(t) ==
    LET w == walk(t) IN Cardinality({i \in 1..Len(w) : t.heap[w[i]].leaf})

Internals(t) ==
    LET w == walk(t) IN Cardinality({i \in 1..Len(w) : ~t.heap[w[i]].leaf})

(* The tree of the current state. *)
Cur == Tree(heap, root, focused, TRUE)

(* The variable last is the last call.  The variable hist is what the      *)
(* caller's history records: the number of inserts since the tree was last *)
(* empty and whether a deletion happened since, and for a run of           *)
(* consecutive delete_focused calls the number of leaves the run started   *)
(* from and the number of calls made.                                      *)
Hist(inserts, deleted, drainN, drainK) ==
    [inserts |-> inserts, deleted |-> deleted,
     drainN |-> drainN, drainK |-> drainK]

NextHist(op, t) ==
    LET empty == t.root = Nil
        deleted == IF empty THEN FALSE
                   ELSE hist.deleted \/ op = "delete_focused"
        inserts == IF empty \/ deleted THEN 0
                   ELSE IF op = "insert" THEN hist.inserts + 1
                   ELSE hist.inserts
        drainN == IF op # "delete_focused" THEN 0
                  ELSE IF hist.drainK > 0 THEN hist.drainN
                  ELSE Leaves(Cur)
        drainK == IF op # "delete_focused" THEN 0
                  ELSE IF hist.drainK > hist.drainN THEN hist.drainK
                  ELSE hist.drainK + 1
    IN  Hist(inserts, deleted, drainN, drainK)

(* The tree becomes t, less the cells t no longer references. *)
Becomes(t) ==
    \E c \in {Collect(t)} :
        /\ heap' = c.heap
        /\ root' = c.root
        /\ focused' = c.focused
        /\ aborted' = ~c.ok

(* A call op of the caller that leaves the tree as t. *)
Call(op, t) ==
    /\ ~aborted
    /\ Becomes(t)
    /\ hist' = IF traced THEN NextHist(op, Tree(heap', root', focused', TRUE))
               ELSE hist
    /\ last' = IF traced THEN [op |-> op] ELSE last
    /\ UNCHANGED <<size, traced, gbvars, llvars>>

(* BSPTree::new(Rectangle::new(0, 0, SizeW, SizeH)) *)
New(tr) ==
    /\ heap = << >>
    /\ root = Nil
    /\ focused = Nil
    /\ size = Rectangle(0, 0, SizeW, SizeH)
    /\ aborted = FALSE
    /\ traced = tr
    /\ last = [op |-> "new"]
    /\ hist = Hist(0, FALSE, 0, 0)
    /\ gap_buffer = Unbuilt
    /\ gb_panicked = FALSE
    /\ overflow_checks = TRUE
    /\ linked_list = Unbuilt
    /\ ll_panicked = FALSE

Init == New(FALSE)

InitTraced == New(TRUE)

Insert ==
    /\ Cardinality(DOMAIN heap) + 2 <= MaxCells
    /\ \E data \in Data : Call("insert", insert(Cur, size, data))

DeleteFocused == Call("delete_focused", delete_focused(Cur))

MoveFocus ==
    \E direction \in MoveDirection :
        Call("move_focus", move_focus(Cur, direction))

FocusCoords ==
    \E x \in ClickX, y \in ClickY :
        Call("focus_coords", focus_coords(Cur, x, y))

SetSplit ==
    \E dir \in SplitDirection : Call("set_split", set_split(Cur, dir))

ToggleSplit == Call("toggle_split", toggle_split(Cur))

Next ==
    \/ Insert
    \/ DeleteFocused
    \/ MoveFocus
    \/ FocusCoords
    \/ SetSplit
    \/ ToggleSplit

Spec == Init /\ [][Next]_vars

SpecTraced == InitTraced /\ [][Next]_vars

(* The calls of a caller that never deletes. *)
NextGrow ==
    \/ Insert
    \/ MoveFocus
    \/ FocusCoords
    \/ SetSplit
    \/ ToggleSplit

SpecGrow == InitTraced /\ [][NextGrow]_vars

---------------------------------------------------------------------------
(***************************************************************************)
(* The gap buffer of src/data_structures/gap_buffer.rs.                    *)
(*                                                                         *)
(* A GapBuffer value is a record of its fields; the boxed slice buffer is  *)
(* a sequence of bytes, element i of the slice being buffer[i + 1].        *)
(*                                                                         *)
(* The fields are usize.  Arithmetic that leaves the range of usize panics *)
(* in a build with overflow checks (debug) and wraps in a build without    *)
(* (release); overflow_checks says which build runs.  A usize is modelled   *)
(* as an integer of small magnitude: n >= 0 for the value n, and n < 0 for *)
(* the wrapped value 2^64 + n.                                             *)
(***************************************************************************)

(* usize comparison on the modelled values. *)
ULt(a, b) == IF (a < 0) = (b < 0) THEN a < b ELSE b < 0

ULe(a, b) == a = b \/ ULt(a, b)

(* a + b and a - b leave the range of usize. *)
AddOverflows(a, b) == (a < 0 /\ b < 0) \/ ((a < 0 \/ b < 0) /\ a + b >= 0)

SubOverflows(a, b) == ULt(a, b)

(* The result of a call: the buffer g and whether the call returned. *)
Ret(g, ok) == [g |-> g, ok |-> ok]

Zeros(n) == [i \in 1..n |-> 0]

(* &s[a..b] and &s[a..]: defined when a <= b <= s.len(). *)
SliceOk(s, a, b) == 0 <= a /\ a <= b /\ b <= Len(s)

Slice(s, a, b) == [i \in 1..(b - a) |-> s[a + i]]

(* s[i] is defined *)
IndexOk(s, i) == 0 <= i /\ i < Len(s)

(* GapBuffer::default *)
GapBuffer_default ==
    [left |-> 0, right |-> GROW_BY - 1, capacity |-> GROW_BY,
     buffer |-> Zeros(GROW_BY)]

(* GapBuffer::new: Vec::with_capacity(capacity) has length 0, so the boxed *)
(* slice is empty whatever capacity is.                                    *)
GapBuffer_new(capacity) ==
    [left |-> 0, right |-> capacity - 1, capacity |-> capacity,
     buffer |-> << >>]

(* ToString::to_string: the bytes before the gap, then the bytes after it. *)
to_string(g, checks) ==
    IF ~SliceOk(g.buffer, 0, g.left) THEN [text |-> << >>, ok |-> FALSE]
    ELSE IF AddOverflows(g.right, 1) /\ checks
         THEN [text |-> << >>, ok |-> FALSE]
    ELSE IF ~SliceOk(g.buffer, g.right + 1, Len(g.buffer))
         THEN [text |-> << >>, ok |-> FALSE]
    ELSE [text |-> Slice(g.buffer, 0, g.left)
                     \o Slice(g.buffer, g.right + 1, Len(g.buffer)),
          ok |-> TRUE]

(* GapBuffer::grow.  new_buff is capacity + GROW_BY zeros followed by the  *)
(* bytes before the gap.  Vec::capacity() after extend_from_slice is the   *)
(* length when nothing was appended; when bytes were appended the vector   *)
(* has reallocated, to twice its capacity (std's amortized growth) or, as  *)
(* far as Vec's contract goes, to exactly its length (exact).  splice      *)
(* panics when the end of its range is beyond the length.                  *)
grow(g, checks, exact) ==
    IF ~SliceOk(g.buffer, 0, g.left) THEN Ret(g, FALSE)
    ELSE LET zeroed == g.capacity + GROW_BY
             new_buff == Zeros(zeroed) \o Slice(g.buffer, 0, g.left)
             vec_capacity == IF g.left = 0 THEN zeroed
                             ELSE IF exact THEN Len(new_buff)
                             ELSE 2 * zeroed
             start == g.right + GROW_BY
         IN  IF AddOverflows(g.right, GROW_BY) /\ checks THEN Ret(g, FALSE)
             ELSE IF ~SliceOk(g.buffer, g.right, Len(g.buffer))
                  THEN Ret(g, FALSE)
             ELSE IF ~SliceOk(new_buff, start, vec_capacity) THEN Ret(g, FALSE)
             ELSE Ret([left |-> g.left,
                       right |-> g.right + GROW_BY,
                       capacity |-> g.capacity + GROW_BY,
                       buffer |-> Slice(new_buff, 0, start)
                                    \o Slice(g.buffer, g.right, Len(g.buffer))
                                    \o Slice(new_buff, vec_capacity,
                                             Len(new_buff))],
                      TRUE)

(* GapBuffer::insert_byte (insert_char is insert_byte of the char's byte). *)
insert_byte(g, c, checks, exact) ==
    LET grown == IF g.left + 1 = g.right THEN grow(g, checks, exact)
                 ELSE Ret(g, TRUE)
        g1 == grown.g
    IN  IF ~grown.ok THEN grown
        ELSE IF ~IndexOk(g1.buffer, g1.left) THEN Ret(g1, FALSE)
        ELSE Ret([g1 EXCEPT !.buffer[g1.left + 1] = c, !.left = g1.left + 1],
                 TRUE)

(* GapBuffer::insert, the loop "while len > self.right - self.left": grow  *)
(* until the gap is wide enough.  A wrapped difference is above every len. *)
RECURSIVE grow_for(_, _, _, _, _)
grow_for(g, len, checks, exact, fuel) ==
    IF SubOverflows(g.right, g.left)
    THEN Ret(g, ~checks)
    ELSE IF len > g.right - g.left /\ fuel > 0
    THEN LET grown == grow(g, checks, exact)
         IN  IF ~grown.ok THEN grown
             ELSE grow_for(grown.g, len, checks, exact, fuel - 1)
    ELSE Ret(g, TRUE)

(* GapBuffer::insert (insert_str is insert of the string's bytes). *)
GapBuffer_insert(g, slice, checks, exact) ==
    LET len == Len(slice)
        grown == grow_for(g, len, checks, exact, len + 1)
        g1 == grown.g
    IN  IF ~grown.ok THEN grown
        ELSE IF len > 0 /\ ~IndexOk(g1.buffer, g1.left + len - 1)
             THEN Ret(g1, FALSE)
        ELSE Ret([g1 EXCEPT
                    !.buffer = [i \in 1..Len(g1.buffer) |->
                                   IF g1.left < i /\ i <= g1.left + len
                                   THEN slice[i - g1.left]
                                   ELSE g1.buffer[i]],
                    !.left = g1.left + len],
                 TRUE)

(* The loops of left_by and right_by: k times, swap elements a + i and     *)
(* b + i of the slice, for i = 0, 1, ... in this order.                    *)
RECURSIVE swaps(_, _, _, _)
swaps(s, a, b, k) ==
    IF k = 0 THEN [buffer |-> s, ok |-> TRUE]
    ELSE IF ~IndexOk(s, a) \/ ~IndexOk(s, b) THEN [buffer |-> s, ok |-> FALSE]
    ELSE swaps([s EXCEPT ![a + 1] = s[b + 1], ![b + 1] = s[a + 1]],
               a + 1, b + 1, k - 1)

(* GapBuffer::left_by *)
left_by(g, n, checks) ==
    LET new_left == IF n > g.left THEN 0 ELSE g.left - n
        moved == g.left - new_left
        new_right == g.right - moved
    IN  IF SubOverflows(g.right, moved) /\ checks THEN Ret(g, FALSE)
        ELSE IF AddOverflows(new_right, 1) /\ checks THEN Ret(g, FALSE)
        ELSE LET res == swaps(g.buffer, new_left, new_right + 1, moved)
             IN  IF ~res.ok THEN Ret(g, FALSE)
                 ELSE Ret([g EXCEPT !.buffer = res.buffer,
                                    !.left = new_left,
                                    !.right = new_right],
                          TRUE)

(* GapBuffer::right_by *)
right_by(g, n, checks) ==
    IF AddOverflows(g.right, n) /\ checks THEN Ret(g, FALSE)
    ELSE IF ULe(g.capacity, g.right + n) /\ SubOverflows(g.capacity, 1)
            /\ checks
         THEN Ret(g, FALSE)
    ELSE LET new_right == IF ULe(g.capacity, g.right + n)
                          THEN g.capacity - 1 ELSE g.right + n
             moved == new_right - g.right
             new_left == g.left + moved
             count == IF ULt(new_right, g.right + 1) THEN 0 ELSE moved
         IN  IF SubOverflows(new_right, g.right) /\ checks THEN Ret(g, FALSE)
             ELSE IF AddOverflows(g.left, moved) /\ checks THEN Ret(g, FALSE)
             ELSE IF AddOverflows(g.right, 1) /\ checks THEN Ret(g, FALSE)
             ELSE LET res == swaps(g.buffer, g.right + 1, g.left, count)
                  IN  IF ~res.ok THEN Ret(g, FALSE)
                      ELSE Ret([g EXCEPT !.buffer = res.buffer,
                                         !.left = new_left,
                                         !.right = new_right],
                               TRUE)

(* GapBuffer::delete_left *)
delete_left(g, n) ==
    Ret([g EXCEPT !.left = IF n > g.left THEN 0 ELSE g.left - n], TRUE)

(* GapBuffer::delete_right *)
delete_right(g, n, checks) ==
    IF AddOverflows(g.right, n) /\ checks THEN Ret(g, FALSE)
    ELSE IF SubOverflows(g.capacity, 1) /\ checks THEN Ret(g, FALSE)
    ELSE Ret([g EXCEPT !.right = IF ULt(g.capacity - 1, g.right + n)
                                 THEN g.capacity - 1 ELSE g.right + n],
             TRUE)

(* The capacity the model lets a buffer grow to. *)
MaxCapacity == GROW_BY * (MaxGrows + 1)

(* The bytes of the text; the buffer is created with zero bytes. *)
Byte == {1, 2}

(* The slices handed to insert: long enough to need a grow. *)
Slices == UNION {[1..n -> Byte] : n \in 0..(GROW_BY + 1)}

(* The numbers of bytes handed to the cursor moves and the deletions. *)
Counts == 0..(MaxCapacity + 1)

(* The capacities handed to GapBuffer::new. *)
NewCapacities == 0..GROW_BY

(* The bytes before and after the cursor of a buffer that to_string reads. *)
Before(g) == Slice(g.buffer, 0, g.left)

After(g) == Slice(g.buffer, g.right + 1, Len(g.buffer))

(* The buffer becomes the result of a call, or the call panics.  The gap   *)
(* indices of a buffer made by new(0) without overflow checks grow without *)
(* limit; the model follows them up to MaxCapacity + 1.                    *)
GbCall(r) ==
    /\ ~gb_panicked
    /\ gap_buffer # Unbuilt
    /\ r.g.capacity <= MaxCapacity
    /\ r.g.left <= MaxCapacity + 1
    /\ r.g.right <= MaxCapacity + 1
    /\ gap_buffer' = r.g
    /\ gb_panicked' = ~r.ok
    /\ UNCHANGED <<heap, root, focused, size, aborted, traced, last, hist,
                   overflow_checks, llvars>>

(* GapBuffer::default() or GapBuffer::new(capacity), in a build with or    *)
(* without overflow checks; new(0) panics at "capacity - 1" with them.     *)
GbInit ==
    /\ heap = << >> /\ root = Nil /\ focused = Nil
    /\ size = Rectangle(0, 0, SizeW, SizeH)
    /\ aborted = FALSE /\ traced = FALSE
    /\ last = [op |-> "new"] /\ hist = Hist(0, FALSE, 0, 0)
    /\ linked_list = Unbuilt /\ ll_panicked = FALSE
    /\ overflow_checks \in BOOLEAN
    /\ \/ gap_buffer = GapBuffer_default /\ gb_panicked = FALSE
       \/ \E capacity \in NewCapacities :
            /\ gap_buffer = GapBuffer_new(capacity)
            /\ gb_panicked = (capacity = 0 /\ overflow_checks)

InsertByte ==
    \E c \in Byte, exact \in BOOLEAN :
        GbCall(insert_byte(gap_buffer, c, overflow_checks, exact))

GbInsert ==
    \E slice \in Slices, exact \in BOOLEAN :
        GbCall(GapBuffer_insert(gap_buffer, slice, overflow_checks, exact))

LeftBy == \E n \in Counts : GbCall(left_by(gap_buffer, n, overflow_checks))

RightBy == \E n \in Counts : GbCall(right_by(gap_buffer, n, overflow_checks))

DeleteLeft == \E n \in Counts : GbCall(delete_left(gap_buffer, n))

DeleteRight ==
    \E n \in Counts : GbCall(delete_right(gap_buffer, n, overflow_checks))

GbNext ==
    \/ InsertByte
    \/ GbInsert
    \/ LeftBy
    \/ RightBy
    \/ DeleteLeft
    \/ DeleteRight

SpecGap == GbInit /\ [][GbNext]_vars

(* GapBuffer::default(), in a build with or without overflow checks. *)
GbInitDefault ==
    /\ GbInit
    /\ gap_buffer = GapBuffer_default

(* The gap buffer from default() only. *)
SpecGapDefault == GbInitDefault /\ [][GbNext]_vars

---------------------------------------------------------------------------
(* The linked list.                                                        *)
(*                                                                         *)
(* A LinkedList<T> is the record of its fields head and size.  head and    *)
(* the next field of a node are Option<Box<Node<T>>>: None, or Some of the *)
(* record of the node, which holds the rest of the chain.  A failed        *)
(* Option::unwrap panics; the model records that in ll_panicked, after     *)
(* which nothing runs.                                                     *)

(* The values pushed on a list.  The list never inspects a value. *)
Values == {1, 2, 3}

(* Node::new of linked_list.rs *)
ListNode_new(value) == [value |-> value, next |-> None]

(* The result of a method: the list it leaves, the value it returns, and   *)
(* ok, which is FALSE when it panicked.                                    *)
LRet(l, ret, ok) == [l |-> l, ret |-> ret, ok |-> ok]

(* LinkedList::new *)
LinkedList_new == [head |-> None, size |-> 0]

(* The loop of push_back from a node: the chain of the node with a new     *)
(* node behind the first node that has no next.                            *)
RECURSIVE push_behind(_, _)
push_behind(node, value) ==
    IF node.next # None
    THEN [node EXCEPT !.next = Some(push_behind(node.next[1], value))]
    ELSE [node EXCEPT !.next = Some(ListNode_new(value))]

(* LinkedList::push_back *)
push_back(l, value) ==
    IF l.head = None
    THEN LRet([head |-> Some(ListNode_new(value)), size |-> l.size + 1],
              None, TRUE)
    ELSE LRet([head |-> Some(push_behind(l.head[1], value)),
               size |-> l.size + 1], None, TRUE)

(* push_front without the swap: the new head keeps next = None. *)
push_front_without_swap(l, value) ==
    LRet([head |-> Some(ListNode_new(value)), size |-> l.size + 1],
         None, TRUE)

(* LinkedList::push_front: the new node takes the old head as its next. *)
push_front(l, value) ==
    IF l.head = None
    THEN LRet([head |-> Some(ListNode_new(value)), size |-> l.size + 1],
              None, TRUE)
    ELSE LRet([head |-> Some([ListNode_new(value) EXCEPT !.next = l.head]),
               size |-> l.size + 1], None, TRUE)

(* The loop of get from an Option of a node: unwrap it, and go index       *)
(* times to the next, unwrapping each.                                     *)
RECURSIVE get_from(_, _)
get_from(opt, index) ==
    IF opt = None THEN [ret |-> None, ok |-> FALSE]
    ELSE IF index = 0 THEN [ret |-> Some(opt[1].value), ok |-> TRUE]
    ELSE get_from(opt[1].next, index - 1)

(* LinkedList::get *)
get(l, index) ==
    IF index >= l.size THEN LRet(l, None, TRUE)
    ELSE LET r == get_from(l.head, index) IN LRet(l, r.ret, r.ok)

(* LinkedList::len *)
len(l) == l.size

(* LinkedList::pop_head *)
pop_head(l) ==
    IF l.size = 0 THEN LRet(l, None, TRUE)
    ELSE IF l.head = None
         THEN LRet([l EXCEPT !.head = None], None, FALSE)
         ELSE LRet([head |-> l.head[1].next, size |-> l.size - 1],
                   Some(l.head[1].value), TRUE)

(* The loop of pop_back and the take after it: go steps times to the next  *)
(* of the node, then take its next.  The result is the chain of the node   *)
(* without what was taken, and what was taken.                             *)
RECURSIVE take_after(_, _)
take_after(node, steps) ==
    IF steps = 0
    THEN [node |-> [node EXCEPT !.next = None], n |-> node.next, ok |-> TRUE]
    ELSE IF node.next = None
         THEN [node |-> node, n |-> None, ok |-> FALSE]
         ELSE LET r == take_after(node.next[1], steps - 1)
              IN  [node |-> [node EXCEPT !.next = Some(r.node)],
                   n |-> r.n, ok |-> r.ok]

(* LinkedList::pop_back: the loop runs while i + 2 < size, the size is     *)
(* decreased after the take, and the value is that of the node taken.      *)
pop_back(l) ==
    IF l.size = 0 THEN LRet(l, None, TRUE)
    ELSE IF l.head = None THEN LRet(l, None, FALSE)
    ELSE LET steps == IF l.size > 2 THEN l.size - 2 ELSE 0
             r == take_after(l.head[1], steps)
         IN  IF ~r.ok THEN LRet(l, None, FALSE)
             ELSE IF r.n = None
                  THEN LRet([head |-> Some(r.node), size |-> l.size - 1],
                            None, FALSE)
                  ELSE LRet([head |-> Some(r.node), size |-> l.size - 1],
                            Some(r.n[1].value), TRUE)

(* The values of the nodes of a chain, from its first node on. *)
RECURSIVE Elements(_)
Elements(opt) ==
    IF opt = None THEN << >>
    ELSE <<opt[1].value>> \o Elements(opt[1].next)

(* The list becomes the result of a call, or the call panics. *)
LlCall(r) ==
    /\ ~ll_panicked
    /\ linked_list # Unbuilt
    /\ r.l.size <= MaxLen
    /\ linked_list' = r.l
    /\ ll_panicked' = ~r.ok
    /\ UNCHANGED <<heap, root, focused, size, aborted, traced, last, hist,
                   gbvars>>

(* LinkedList::new() *)
LlInit ==
    /\ heap = << >> /\ root = Nil /\ focused = Nil
    /\ size = Rectangle(0, 0, SizeW, SizeH)
    /\ aborted = FALSE /\ traced = FALSE
    /\ last = [op |-> "new"] /\ hist = Hist(0, FALSE, 0, 0)
    /\ gap_buffer = Unbuilt /\ gb_panicked = FALSE /\ overflow_checks = TRUE
    /\ linked_list = LinkedList_new
    /\ ll_panicked = FALSE

PushBack == \E value \in Values : LlCall(push_back(linked_list, value))

PushFront == \E value \in Values : LlCall(push_front(linked_list, value))

PopHead == LlCall(pop_head(linked_list))

PopBack == LlCall(pop_back(linked_list))

LlNext ==
    \/ PushBack
    \/ PushFront
    \/ PopHead
    \/ PopBack

(* The list under all its operations. *)
SpecList == LlInit /\ [][LlNext]_vars

LlNextFront ==
    \/ PushBack
    \/ PushFront
    \/ PopHead

(* The list under push_back, push_front and pop_head only. *)
SpecListFront == LlInit /\ [][LlNextFront]_vars



---------------------------------------------------------------------------
(* The tree as seen from the root: the nodes walk() returns.               *)
TreeCells(t) == Range(walk(t))

IsLeafCell(t, c) == t.heap[c].left = Nil /\ t.heap[c].right = Nil

IsInnerCell(t, c) == t.heap[c].left # Nil /\ t.heap[c].right # Nil

(* The number of leaves of the tree that hold payload d. *)
PayloadCount(t, d) ==
    LET w == walk(t)
    IN  Cardinality({i \in 1..Len(w) :
            t.heap[w[i]].leaf /\ t.heap[w[i]].data = Some(d)})

(* The subtree below cell c as a value without cell identities: the fields *)
(* of the node and, for each child slot, the subtree in it.                *)
RECURSIVE Sub(_, _, _)
Sub(h, c, fuel) ==
    [ rect |-> h[c].rect, split |-> h[c].split, leaf |-> h[c].leaf,
      data |-> h[c].data, focused |-> h[c].focused,
      right_child |-> h[c].right_child,
      left |-> IF h[c].left = Nil \/ fuel = 0 THEN << >>
               ELSE <<Sub(h, h[c].left, fuel - 1)>>,
      right |-> IF h[c].right = Nil \/ fuel = 0 THEN << >>
                ELSE <<Sub(h, h[c].right, fuel - 1)>> ]

View(t) == IF t.root = Nil THEN << >> ELSE <<Sub(t.heap, t.root, MaxCells)>>

(* Sub(h, c), with the subtree below cell f replaced by the value new. *)
RECURSIVE Graft(_, _, _, _, _)
Graft(h, c, f, new, fuel) ==
    IF c = f THEN new
    ELSE [ rect |-> h[c].rect, split |-> h[c].split, leaf |-> h[c].leaf,
           data |-> h[c].data, focused |-> h[c].focused,
           right_child |-> h[c].right_child,
           left |-> IF h[c].left = Nil \/ fuel = 0 THEN << >>
                    ELSE <<Graft(h, h[c].left, f, new, fuel - 1)>>,
           right |-> IF h[c].right = Nil \/ fuel = 0 THEN << >>
                     ELSE <<Graft(h, h[c].right, f, new, fuel - 1)>> ]

(* The two halves of a rectangle, written out. *)
TopHalf(r) == Rectangle(r.x, r.y, r.w, r.h \div 2)
BottomHalf(r) == Rectangle(r.x, r.y + r.h \div 2, r.w, r.h \div 2)
LeftHalf(r) == Rectangle(r.x, r.y, r.w \div 2, r.h)
RightHalf(r) == Rectangle(r.x + r.w \div 2, r.y, r.w \div 2, r.h)

FirstHalf(dir, r) == IF dir = "Horizontal" THEN TopHalf(r) ELSE LeftHalf(r)
SecondHalf(dir, r) == IF dir = "Horizontal" THEN BottomHalf(r) ELSE RightHalf(r)

(* Inclusive containment, written out on the integers. *)
Contains(r, x, y) ==
    /\ r.x <= x /\ x <= r.x + r.w
    /\ r.y <= y /\ y <= r.y + r.h

---------------------------------------------------------------------------
(* C1: delete_focused() on a focused leaf that has a parent removes exactly *)
(* that leaf: the leaves of the tree then carry the previous payloads minus *)
(* the focused leaf's payload, and the number of leaves and the number of   *)
(* internal nodes both drop by one.                                         *)
C1_DeleteRemovesFocusedLeaf ==
    [][ ( /\ last'.op = "delete_focused"
          /\ focused # Nil
          /\ heap[focused].parent # Nil )
        => ( /\ Leaves(Cur)' = Leaves(Cur) - 1
             /\ Internals(Cur)' = Internals(Cur) - 1
             /\ \A d \in Data :
                   PayloadCount(Cur, d)' =
                       PayloadCount(Cur, d)
                         - (IF heap[focused].data = Some(d) THEN 1 ELSE 0) )
      ]_vars

(* C2: every internal node of the tree has as children's rectangles the two *)
(* halves of its own rectangle under its own split policy.                  *)
C2_ChildrenAreHalves ==
    \A c \in TreeCells(Cur) :
        IsInnerCell(Cur, c) =>
            /\ heap[heap[c].left].rect = FirstHalf(heap[c].split, heap[c].rect)
            /\ heap[heap[c].right].rect = SecondHalf(heap[c].split, heap[c].rect)

(* C3: in a non-empty tree exactly one node of the tree has its focus flag  *)
(* set, and that node is a leaf.                                            *)
C3_OneFocusedLeaf ==
    root # Nil =>
        /\ Cardinality({c \in TreeCells(Cur) : heap[c].focused}) = 1
        /\ \A c \in TreeCells(Cur) :
              heap[c].focused => heap[c].leaf /\ IsLeafCell(Cur, c)

(* C4: every node of the tree is a leaf (no children, leaf flag set, a      *)
(* payload) or an internal node (two children, leaf flag clear, no          *)
(* payload); no node has exactly one child.                                 *)
C4_ZeroOrTwoChildren ==
    \A c \in TreeCells(Cur) :
        \/ IsLeafCell(Cur, c) /\ heap[c].leaf /\ heap[c].data # None
        \/ IsInnerCell(Cur, c) /\ ~heap[c].leaf /\ heap[c].data = None

(* C5: no sequence of calls of the mutators aborts.                         *)
C5_NoAbort == ~aborted

(* C6: from a tree with N >= 1 leaves, repeated delete_focused() calls      *)
(* leave the tree non-empty after each of the first N-1 calls and empty,    *)
(* root and focus absent, after the N-th.                                   *)
C6_DrainEmptiesAfterN ==
    (hist.drainK >= 1 /\ hist.drainN >= 1) =>
        /\ hist.drainK < hist.drainN => root # Nil
        /\ hist.drainK = hist.drainN => root = Nil /\ focused = Nil

(* A leaf and an internal node as View shows them. *)
LeafView(rect, dir, data, foc, rc) ==
    [ rect |-> rect, split |-> dir, leaf |-> TRUE, data |-> data,
      focused |-> foc, right_child |-> rc, left |-> << >>, right |-> << >> ]

InnerView(rect, dir, rc, l, r) ==
    [ rect |-> rect, split |-> dir, leaf |-> FALSE, data |-> None,
      focused |-> FALSE, right_child |-> rc, left |-> <<l>>, right |-> <<r>> ]

(* C7: insert(p) on a non-empty tree turns the focused leaf into an         *)
(* internal node without payload and focus; its left child holds the        *)
(* leaf's payload, its right child holds p, is flagged right_child and is   *)
(* the focused node; the children's rectangles are the halves of the        *)
(* leaf's rectangle under the leaf's split policy, which both children      *)
(* carry; no other node of the tree changes.                                *)
C7_InsertSplitsFocusedLeaf ==
    [][ \A p \in Data :
          (/\ root # Nil
           /\ ~aborted
           /\ Cardinality(DOMAIN heap) + 2 <= MaxCells
           /\ Becomes(insert(Cur, size, p)))
          => /\ focused \in TreeCells(Cur)
             /\ IsLeafCell(Cur, focused)
             /\ LET old == heap[focused]
                    l == LeafView(FirstHalf(old.split, old.rect), old.split,
                                  old.data, FALSE, FALSE)
                    r == LeafView(SecondHalf(old.split, old.rect), old.split,
                                  Some(p), TRUE, TRUE)
                    inner == InnerView(old.rect, old.split, old.right_child,
                                       l, r)
                IN  View(Cur)' = <<Graft(heap, root, focused, inner,
                                         MaxCells)>>
             /\ \E c \in TreeCells(Cur)' : heap'[c].right = focused'
      ]_vars

(* C8: after N >= 1 inserts into an empty tree and no deletion, the tree    *)
(* has N leaves and N-1 internal nodes; after the first insert it is a      *)
(* single focused leaf that spans the bounding rectangle.                   *)
C8_InsertsCountLeaves ==
    hist.inserts >= 1 =>
        /\ Leaves(Cur) = hist.inserts
        /\ Internals(Cur) = hist.inserts - 1
        /\ Len(walk(Cur)) = 2 * hist.inserts - 1
        /\ hist.inserts = 1 =>
              /\ focused = root
              /\ IsLeafCell(Cur, root)
              /\ heap[root].focused
              /\ heap[root].rect = size

(* C9: every node of the tree has a rectangle of positive width and         *)
(* height.                                                                  *)
C9_PositiveRectangles ==
    \A c \in TreeCells(Cur) : heap[c].rect.w > 0 /\ heap[c].rect.h > 0

(* C10: get_node(x, y) returns a node only if it is a leaf whose rectangle  *)
(* contains (x, y); on an empty tree and for a point outside the bounding   *)
(* rectangle it returns none.                                               *)
C10_GetNodeFindsContainingLeaf ==
    \A x \in CoordX, y \in CoordY :
        LET node == get_node(Cur, x, y)
        IN  /\ node # Nil =>
                  /\ node \in TreeCells(Cur)
                  /\ IsLeafCell(Cur, node)
                  /\ Contains(heap[node].rect, x, y)
            /\ (root = Nil \/ ~Contains(size, x, y)) => node = Nil

(* C11: when get_node(x, y) finds no leaf, focus_coords(x, y) leaves the    *)
(* whole tree unchanged: the focused reference, the focus flags, the        *)
(* structure, the payloads and the rectangles.                              *)
C11_FocusCoordsMissChangesNothing ==
    \A x \in CoordX, y \in CoordY :
        get_node(Cur, x, y) = Nil =>
            LET t == focus_coords(Cur, x, y)
            IN  /\ t.ok
                /\ t.focused = focused
                /\ t.root = root
                /\ DOMAIN t.heap = DOMAIN heap
                /\ \A c \in DOMAIN heap : t.heap[c] = heap[c]

(* The focused leaf lies on the edge of the bounding rectangle in          *)
(* direction d.                                                             *)
OnEdge(d) ==
    LET r == heap[focused].rect
    IN  CASE d = "Left"  -> r.x = size.x
          [] d = "Right" -> r.x + r.w = size.x + size.w
          [] d = "Up"    -> r.y = size.y
          [] d = "Down"  -> r.y + r.h = size.y + size.h

(* C12: move_focus(d), when the focused leaf lies on the bounding           *)
(* rectangle's edge in direction d, leaves the focus on the same leaf.      *)
C12_MoveFocusStopsAtEdge ==
    (root # Nil /\ focused # Nil) =>
        \A d \in MoveDirection :
            OnEdge(d) =>
                LET t == move_focus(Cur, d)
                IN  /\ t.ok
                    /\ t.focused = focused
                    /\ t.heap[focused].focused
                    /\ \A c \in DOMAIN heap \ {focused} :
                          t.heap[c].focused = heap[c].focused

(* The records of two heaps agree on every cell but for the split policy of *)
(* cell f, which is dir in the heap h1.                                     *)
OnlySplitOf(h0, h1, f, dir) ==
    /\ DOMAIN h1 = DOMAIN h0
    /\ \A c \in DOMAIN h0 :
          /\ h1[c].rect = h0[c].rect
          /\ h1[c].left = h0[c].left
          /\ h1[c].right = h0[c].right
          /\ h1[c].parent = h0[c].parent
          /\ h1[c].data = h0[c].data
          /\ h1[c].focused = h0[c].focused
          /\ h1[c].leaf = h0[c].leaf
          /\ h1[c].right_child = h0[c].right_child
          /\ h1[c].split = IF c = f THEN dir ELSE h0[c].split

Other(dir) == IF dir = "Horizontal" THEN "Vertical" ELSE "Horizontal"

(* C13: set_split(policy) and toggle_split() change only the split policy   *)
(* of the focused node, toggle_split swaps Horizontal and Vertical, two     *)
(* toggles restore the policy, and on an empty tree both change nothing.    *)
C13_SplitChangesOnlyPolicy ==
    /\ \A dir \in SplitDirection :
          LET t == set_split(Cur, dir)
          IN  /\ t.ok /\ t.root = root /\ t.focused = focused
              /\ IF focused = Nil THEN t.heap = heap
                 ELSE OnlySplitOf(heap, t.heap, focused, dir)
    /\ LET t == toggle_split(Cur)
       IN  /\ t.ok /\ t.root = root /\ t.focused = focused
           /\ IF focused = Nil THEN t.heap = heap
              ELSE OnlySplitOf(heap, t.heap, focused,
                               Other(heap[focused].split))
           /\ toggle_split(t) = Cur
    /\ root = Nil => focused = Nil

(* The node of the tree that has cell c as a child, Nil if there is none.   *)
TreeParent(t, c) ==
    LET ps == {p \in TreeCells(t) : t.heap[p].left = c \/ t.heap[p].right = c}
    IN  IF ps = {} THEN Nil ELSE CHOOSE p \in ps : TRUE

(* The other child of the node p of the tree. *)
TreeSibling(t, p, c) ==
    IF t.heap[p].left = c THEN t.heap[p].right ELSE t.heap[p].left

(* C14: delete_focused() on a focused leaf whose sibling is a leaf leaves,  *)
(* at the parent's former position in the tree, a single leaf that holds    *)
(* the sibling's payload, has the parent's former rectangle and is the      *)
(* focused node.                                                            *)
C14_DeleteBesideLeafPromotesSibling ==
    [][ ( /\ ~aborted
          /\ focused # Nil
          /\ focused \in TreeCells(Cur)
          /\ IsLeafCell(Cur, focused)
          /\ TreeParent(Cur, focused) # Nil
          /\ TreeSibling(Cur, TreeParent(Cur, focused), focused) # Nil
          /\ IsLeafCell(Cur, TreeSibling(Cur, TreeParent(Cur, focused),
                                         focused))
          /\ Becomes(delete_focused(Cur)) )
        => LET p == TreeParent(Cur, focused)
               s == TreeSibling(Cur, p, focused)
           IN  /\ ~aborted'
               /\ \E sp \in SplitDirection, rc \in BOOLEAN :
                     View(Cur)' =
                       <<Graft(heap, root, p,
                               LeafView(heap[p].rect, sp, heap[s].data,
                                        TRUE, rc),
                               MaxCells)>>
               /\ focused' \in TreeCells(Cur)'
               /\ heap'[focused'].focused
      ]_vars

(* The cells that the child links reach from the cells of S. *)
RECURSIVE Below(_, _)
Below(h, S) ==
    LET N == S \cup (({h[c].left : c \in S} \cup {h[c].right : c \in S})
                       \ {Nil})
    IN  IF N = S THEN S ELSE Below(h, N)

(* The number of nodes of the subtree in a child slot. *)
SubtreeSize(h, c) == IF c = Nil THEN 0 ELSE Cardinality(Below(h, {c}))

(* C15: walk() returns every node reachable from the root exactly once, a  *)
(* node before its left subtree and its whole left subtree before its       *)
(* right subtree, and the empty list for an empty tree; the traversal is    *)
(* no deeper than the tree has nodes.                                       *)
C15_WalkIsPreOrder ==
    LET w == walk(Cur)
    IN  IF root = Nil THEN w = << >>
        ELSE /\ w[1] = root
             /\ Range(w) = Below(heap, {root})
             /\ Len(w) = Cardinality(Range(w))
             /\ w = <<root>> \o Node_walk(heap, root, MaxCells + 1)
             /\ \A i \in 1..Len(w) :
                   LET l == heap[w[i]].left
                       r == heap[w[i]].right
                   IN  /\ l # Nil => w[i + 1] = l
                       /\ r # Nil => w[i + 1 + SubtreeSize(heap, l)] = r

Min(a, b) == IF a <= b THEN a ELSE b

(* C16: left_by(n) and right_by(n) never change the text to_string()        *)
(* returns, in every reachable state of the buffer and for every n; they    *)
(* move the gap by min(n, bytes on that side).                              *)
C16_CursorMovesKeepText ==
    (~gb_panicked /\ to_string(gap_buffer, overflow_checks).ok) =>
        \A n \in Counts :
            LET g == gap_buffer
                text == to_string(g, overflow_checks).text
                l == left_by(g, n, overflow_checks)
                r == right_by(g, n, overflow_checks)
            IN  /\ l.ok
                /\ to_string(l.g, overflow_checks).ok
                /\ to_string(l.g, overflow_checks).text = text
                /\ l.g.left = g.left - Min(n, Len(Before(g)))
                /\ l.g.right = g.right - Min(n, Len(Before(g)))
                /\ r.ok
                /\ to_string(r.g, overflow_checks).ok
                /\ to_string(r.g, overflow_checks).text = text
                /\ r.g.left = g.left + Min(n, Len(After(g)))
                /\ r.g.right = g.right + Min(n, Len(After(g)))

(* C17: after insert(slice) and insert_byte(c), in every reachable state,   *)
(* to_string() is the text before the cursor, then the inserted bytes,      *)
(* then the text after the cursor.                                          *)
C17_InsertPlacesBytesAtCursor ==
    (~gb_panicked /\ to_string(gap_buffer, overflow_checks).ok) =>
        \A exact \in BOOLEAN :
            /\ \A c \in Byte :
                 LET r == insert_byte(gap_buffer, c, overflow_checks, exact)
                 IN  /\ r.ok
                     /\ to_string(r.g, overflow_checks).ok
                     /\ to_string(r.g, overflow_checks).text =
                          Before(gap_buffer) \o <<c>> \o After(gap_buffer)
            /\ \A slice \in Slices :
                 LET r == GapBuffer_insert(gap_buffer, slice, overflow_checks,
                                           exact)
                 IN  /\ r.ok
                     /\ to_string(r.g, overflow_checks).ok
                     /\ to_string(r.g, overflow_checks).text =
                          Before(gap_buffer) \o slice \o After(gap_buffer)

(* C18: delete_left(n) removes the last min(n, bytes before the cursor)     *)
(* bytes before the cursor and delete_right(n) the first min(n, bytes       *)
(* after the cursor) bytes after it; the rest of the text keeps its order   *)
(* and the capacity is unchanged.                                           *)
C18_DeleteClamps ==
    (~gb_panicked /\ to_string(gap_buffer, overflow_checks).ok) =>
        \A n \in Counts :
            LET g == gap_buffer
                before == Before(g)
                after == After(g)
                l == delete_left(g, n)
                r == delete_right(g, n, overflow_checks)
            IN  /\ l.ok
                /\ to_string(l.g, overflow_checks).ok
                /\ to_string(l.g, overflow_checks).text =
                     SubSeq(before, 1, Len(before) - Min(n, Len(before)))
                       \o after
                /\ l.g.capacity = g.capacity
                /\ r.ok
                /\ to_string(r.g, overflow_checks).ok
                /\ to_string(r.g, overflow_checks).text =
                     before \o SubSeq(after, Min(n, Len(after)) + 1, Len(after))
                /\ r.g.capacity = g.capacity


(* C19: pop_back() on a non-empty list, a list of one element included,     *)
(* removes the element furthest from the head and returns it, decreases     *)
(* len() by one and leaves the other elements in order; on an empty list    *)
(* it returns None.                                                         *)
C19_PopBackRemovesLast ==
    (~ll_panicked /\ linked_list # Unbuilt) =>
        LET s == Elements(linked_list.head)
            r == pop_back(linked_list)
        IN  IF s = << >>
            THEN r.ok /\ r.ret = None /\ r.l = linked_list
            ELSE /\ r.ok
                 /\ r.ret = Some(s[Len(s)])
                 /\ len(r.l) = len(linked_list) - 1
                 /\ Elements(r.l.head) = SubSeq(s, 1, Len(s) - 1)

(* C20: after any sequence of push_back, push_front and pop_head the list   *)
(* matches the sequence of its elements: no call has panicked, len() is     *)
(* the number of elements, get(i) is the i-th element from the head for     *)
(* i < len() and None otherwise, push_front prepends, push_back appends,    *)
(* and pop_head removes and returns the first element (None when empty).    *)
C20_ListMatchesSequence ==
    linked_list # Unbuilt =>
        LET l == linked_list
            s == Elements(l.head)
        IN  /\ ~ll_panicked
            /\ len(l) = Len(s)
            /\ \A i \in 0..(MaxLen + 1) :
                 /\ get(l, i).ok
                 /\ get(l, i).l = l
                 /\ get(l, i).ret = IF i < Len(s) THEN Some(s[i + 1]) ELSE None
            /\ \A value \in Values :
                 /\ push_front(l, value).ok
                 /\ Elements(push_front(l, value).l.head) = <<value>> \o s
                 /\ len(push_front(l, value).l) = Len(s) + 1
                 /\ push_back(l, value).ok
                 /\ Elements(push_back(l, value).l.head) = s \o <<value>>
                 /\ len(push_back(l, value).l) = Len(s) + 1
            /\ pop_head(l).ok
            /\ IF s = << >>
               THEN pop_head(l).ret = None /\ pop_head(l).l = l
               ELSE /\ pop_head(l).ret = Some(Head(s))
                    /\ Elements(pop_head(l).l.head) = Tail(s)
                    /\ len(pop_head(l).l) = Len(s) - 1

(* C21: every node of the tree but the root has as parent the node whose    *)
(* child slot holds it, and its right_child flag is set exactly when that   *)
(* slot is the right one; the root has no parent.                           *)
C21_ParentLinksMatchSlots ==
    root # Nil =>
        /\ heap[root].parent = Nil
        /\ \A c \in TreeCells(Cur) :
              /\ heap[c].left # Nil =>
                    /\ heap[heap[c].left].parent = c
                    /\ ~heap[heap[c].left].right_child
              /\ heap[c].right # Nil =>
                    /\ heap[heap[c].right].parent = c
                    /\ heap[heap[c].right].right_child

(* C22: whenever the focused node has no parent it is the root and the      *)
(* root is the only node of the tree, so the branch of delete_focused()     *)
(* that clears root and focus discards no other leaf.                       *)
C22_ParentlessFocusIsLoneRoot ==
    (focused # Nil /\ heap[focused].parent = Nil) =>
        /\ focused = root
        /\ IsLeafCell(Cur, root)
        /\ heap[root].leaf
        /\ Len(walk(Cur)) = 1

(* C23: the focused reference is absent exactly when the root is absent;    *)
(* when present it refers to a node of the tree that is a leaf and is the   *)
(* node whose focus flag is set.                                            *)
C23_FocusedIsLiveLeaf ==
    /\ (focused = Nil) <=> (root = Nil)
    /\ focused # Nil =>
          /\ focused \in TreeCells(Cur)
          /\ IsLeafCell(Cur, focused)
          /\ heap[focused].leaf
          /\ heap[focused].focused
          /\ \A c \in TreeCells(Cur) : heap[c].focused => c = focused

(* C24: for a point on the shared edge of the rectangles of two sibling     *)
(* nodes is_inside holds for both rectangles, and the descent of get_node   *)
(* from their parent goes into the right child: the node it stops at, and   *)
(* so the leaf get_node returns, lies in the right child's subtree.         *)
C24_SharedEdgeGoesRight ==
    \A c \in TreeCells(Cur) :
        IsInnerCell(Cur, c) =>
            \A x \in CoordX, y \in CoordY :
                LET l == heap[c].left
                    r == heap[c].right
                IN  (Contains(heap[l].rect, x, y) /\ Contains(heap[r].rect, x, y))
                    => /\ is_inside(heap[l].rect, x, y)
                       /\ is_inside(heap[r].rect, x, y)
                       /\ Descend(heap, c, x, y, MaxCells) \in Below(heap, {r})
                       /\ c = root =>
                             get_node(Cur, x, y) \in {Nil} \cup Below(heap, {r})

(* The half of n rounded down, without division. *)
Half(n) == CHOOSE q \in 0..n : 2 * q <= n /\ n <= 2 * q + 1

(* a and b are the halves of rect under dir with the halved dimension       *)
(* rounded down, so that for an odd dimension they sum to one less.         *)
TruncatedHalves(dir, rect, a, b) ==
    /\ IF dir = "Horizontal"
       THEN /\ a = Rectangle(rect.x, rect.y, rect.w, Half(rect.h))
            /\ b = Rectangle(rect.x, rect.y + Half(rect.h), rect.w, Half(rect.h))
            /\ a.h + b.h = IF rect.h % 2 = 1 THEN rect.h - 1 ELSE rect.h
       ELSE /\ a = Rectangle(rect.x, rect.y, Half(rect.w), rect.h)
            /\ b = Rectangle(rect.x + Half(rect.w), rect.y, Half(rect.w), rect.h)
            /\ a.w + b.w = IF rect.w % 2 = 1 THEN rect.w - 1 ELSE rect.w

(* C25: split() halves by truncating division, for both policies and every *)
(* rectangle of a node, and every rectangle that update() recomputes below  *)
(* a node is such a half of the rectangle above it.                         *)
C25_SplitTruncates ==
    \A c \in DOMAIN heap :
        /\ \A dir \in SplitDirection :
              TruncatedHalves(dir, heap[c].rect, split(dir, heap[c].rect)[1],
                              split(dir, heap[c].rect)[2])
        /\ \A rect \in {heap[c].rect, size} :
              LET u == update(heap, c, rect, {})
              IN  /\ u.ok
                  /\ u.heap[c].rect = rect
                  /\ \A n \in Below(heap, {c}) :
                        IsInnerCell(Cur, n) =>
                            TruncatedHalves(heap[n].split, u.heap[n].rect,
                                            u.heap[heap[n].left].rect,
                                            u.heap[heap[n].right].rect)

(* The probe points of the four directions, written out. *)
Probe(d, r) ==
    IF d = "Left" THEN <<r.x - 1, r.y>>
    ELSE IF d = "Right" THEN <<r.x + r.w + 1, r.y>>
    ELSE IF d = "Up" THEN <<r.x, r.y - 1>>
    ELSE <<r.x, r.y + r.h + 1>>

(* The heap without its focus flags. *)
Unfocused(h) == [c \in DOMAIN h |-> [h[c] EXCEPT !.focused = FALSE]]

(* C26: move_focus(d) with focused rectangle (x, y, w, h) has the effect of *)
(* focus_coords on (x-1, y) for Left, (x+w+1, y) for Right, (x, y-1) for Up *)
(* and (x, y+h+1) for Down; when get_node finds a leaf there it becomes the *)
(* sole focused node, and structure, payloads, split policies and           *)
(* rectangles are unchanged.                                                *)
C26_MoveFocusIsFocusCoordsAtProbe ==
    (root # Nil /\ focused # Nil) =>
        \A d \in MoveDirection :
            LET p == Probe(d, heap[focused].rect)
                node == get_node(Cur, p[1], p[2])
                t == move_focus(Cur, d)
            IN  /\ t = focus_coords(Cur, p[1], p[2])
                /\ t.ok
                /\ t.root = root
                /\ Unfocused(t.heap) = Unfocused(heap)
                /\ node # Nil =>
                      /\ t.focused = node
                      /\ IsLeafCell(Cur, node)
                      /\ \A c \in TreeCells(Cur) : t.heap[c].focused <=> c = node
                /\ node = Nil => t = Cur

(* C27: in a reachable non-empty state insert(p) followed at once by        *)
(* delete_focused() restores the tree as seen from the root: same shape,    *)
(* payloads, rectangles and split policies, and the focus on the leaf that  *)
(* was focused before the insert.                                           *)
C27_InsertThenDeleteRestores ==
    (root # Nil /\ ~aborted) =>
        \A p \in Data :
            LET t == delete_focused(insert(Cur, size, p))
            IN  /\ t.ok
                /\ View(t) = View(Cur)
                /\ t.focused # Nil
                /\ t.heap[t.focused].focused
                /\ t.focused \in Range(walk(t))

(* C28: whenever the tree is non-empty the root's rectangle is the bounding *)
(* rectangle given to new(), and no call changes the bounding rectangle.    *)
C28_RootSpansBoundingRectangle ==
    /\ size = Rectangle(0, 0, SizeW, SizeH)
    /\ root # Nil => heap[root].rect = size

(* C29: after any sequence of operations from default() the gap indices     *)
(* satisfy 0 <= left <= right < capacity and the buffer is capacity bytes   *)
(* long, and no operation panics on a write outside the buffer.             *)
C29_GapIndicesInOrder ==
    /\ ~gb_panicked
    /\ 0 <= gap_buffer.left
    /\ gap_buffer.left <= gap_buffer.right
    /\ gap_buffer.right < gap_buffer.capacity
    /\ Len(gap_buffer.buffer) = gap_buffer.capacity

---------------------------------------------------------------------------
(* States in which the cases of the properties above have happened.         *)

(* The focus has been moved off the leaf that insert focused (a right      *)
(* child), by focus_coords, move_focus or delete_focused, in a tree of      *)
(* several leaves.                                                          *)
C3_Witness ==
    /\ root # Nil
    /\ Leaves(Cur) >= 2
    /\ heap[focused].focused
    /\ ~heap[focused].right_child
    /\ focused \in TreeCells(Cur)

(* A deletion has spliced the tree, leaving a cell outside it, and the tree *)
(* still has an internal node.                                              *)
C4_Witness ==
    /\ \E c \in DOMAIN heap : c \notin TreeCells(Cur)
    /\ Internals(Cur) >= 1

(* Scenario D: the root was toggled to Horizontal and then split by the     *)
(* second insert into a top and a bottom half.                              *)
C7_Witness ==
    /\ root # Nil
    /\ Len(walk(Cur)) = 3
    /\ DOMAIN heap = TreeCells(Cur)
    /\ heap[root].split = "Horizontal"
    /\ heap[heap[root].left].data # None
    /\ heap[heap[root].right].data # None
    /\ heap[heap[root].left].rect = TopHalf(size)
    /\ heap[heap[root].right].rect = BottomHalf(size)
    /\ focused = heap[root].right

(* Three inserts, with the focus moved in between, and no deletion.         *)
C8_Witness ==
    /\ hist.inserts = 3
    /\ last.op = "insert"
    /\ heap[heap[root].left].left # Nil

(* A tree of several leaves in which a point of the canvas lies in no leaf  *)
(* (the halves of an odd width or height leave the last column or row       *)
(* uncovered), so focus_coords there finds nothing.                         *)
C11_Witness ==
    /\ Leaves(Cur) >= 2
    /\ \E x \in ClickX, y \in ClickY :
          /\ get_node(Cur, x, y) = Nil
          /\ Contains(size, x, y)

(* The focus has been moved to the left leaf of a vertically split root,    *)
(* which lies on the left, upper and lower edge.                            *)
C12_Witness ==
    /\ root # Nil
    /\ Leaves(Cur) >= 2
    /\ focused = heap[root].left
    /\ heap[root].split = "Vertical"
    /\ OnEdge("Left") /\ OnEdge("Up") /\ OnEdge("Down")

(* The focused leaf of a tree of several leaves has had its policy set to   *)
(* Horizontal while its sibling kept Vertical.                              *)
C13_Witness ==
    /\ root # Nil
    /\ Leaves(Cur) >= 2
    /\ TreeParent(Cur, focused) # Nil
    /\ heap[focused].split = "Horizontal"
    /\ heap[TreeSibling(Cur, TreeParent(Cur, focused), focused)].split
          = "Vertical"

(* A tree of five nodes whose root has an internal left child, so that the  *)
(* order of the subtrees shows in the list.                                 *)
C15_Witness ==
    /\ root # Nil
    /\ Len(walk(Cur)) = 5
    /\ heap[heap[root].left].left # Nil

(* A list of three different values that pushes at both ends and a pop at   *)
(* the head have left: 2 was pushed at the front of <<1>> or 1 at the back  *)
(* of <<2>>, and 3 at the back.                                             *)
C20_Witness ==
    /\ linked_list # Unbuilt
    /\ ~ll_panicked
    /\ Elements(linked_list.head) = <<2, 1, 3>>
    /\ len(linked_list) = 3

(* A deletion has spliced a cell out of the tree, and the focus is on a     *)
(* leaf of a tree that still has several leaves.                            *)
C23_Witness ==
    /\ focused # Nil
    /\ Leaves(Cur) >= 2
    /\ \E c \in DOMAIN heap : c \notin TreeCells(Cur) /\ c # focused

(* A deletion has spliced out a child of the root whose sibling was an      *)
(* internal node: the sibling's cell, outside the tree, has no parent and   *)
(* the root's children are the sibling's.                                   *)
C28_Witness ==
    /\ root # Nil
    /\ \E c \in DOMAIN heap :
          /\ c \notin TreeCells(Cur)
          /\ heap[c].parent = Nil
          /\ heap[c].left = heap[root].left
          /\ heap[c].left # Nil

(* A root split into a left and a right half whose right child is split     *)
(* again: the points of the edge x = SizeW \div 2 lie in both children of   *)
(* the root, and the descent goes on below the right child.                 *)
C24_Witness ==
    /\ root # Nil
    /\ IsInnerCell(Cur, root)
    /\ heap[root].split = "Vertical"
    /\ IsInnerCell(Cur, heap[root].right)
    /\ Contains(heap[heap[root].left].rect, SizeW \div 2, 0)
    /\ Contains(heap[heap[root].right].rect, SizeW \div 2, 0)
    /\ get_node(Cur, SizeW \div 2, 0) \in Below(heap, {heap[root].right})

(* After a deletion that left the promoted sibling's cell outside the tree, *)
(* the root has an odd width and the rectangles of its children, which      *)
(* update() has recomputed, are a left and a right half whose widths sum to *)
(* one less.                                                                *)
C25_Witness ==
    /\ root # Nil
    /\ \E c \in DOMAIN heap : c \notin TreeCells(Cur)
    /\ IsInnerCell(Cur, root)
    /\ heap[root].split = "Vertical"
    /\ heap[root].rect.w % 2 = 1
    /\ heap[heap[root].left].rect.w + heap[heap[root].right].rect.w
          = heap[root].rect.w - 1
    /\ heap[heap[root].right].rect.x = Half(heap[root].rect.w)

(* Scenario B: two leaves side by side under a root split vertically, with  *)
(* the focus on the left one, where move_focus(Left) from the right leaf    *)
(* has put it; move_focus(Right) finds the right leaf from here.            *)
C26_Witness ==
    /\ root # Nil
    /\ Len(walk(Cur)) = 3
    /\ DOMAIN heap = TreeCells(Cur)
    /\ heap[root].split = "Vertical"
    /\ focused = heap[root].left
    /\ get_node(Cur, Probe("Right", heap[focused].rect)[1],
                Probe("Right", heap[focused].rect)[2]) = heap[root].right
    /\ move_focus(Cur, "Right").focused = heap[root].right

=============================================================================
